---- MODULE Spec2Model ----
(***************************************************************************)
(* A model of the gotty client session engine (package gottyclient of      *)
(* src/cmd/gotty-client/main.go): the handshake (GetAuthToken, Connect),   *)
(* the blocking Loop, the pump goroutines (pingLoop, termsizeLoop,         *)
(* writeLoop, readLoop and its reader helper), the write guard and the     *)
(* poison channel (openPoison, die, ExitLoop).                             *)
(*                                                                         *)
(* One goroutine is one entry of pc.  A state is taken between two         *)
(* operations on shared state (the poison channel, the write mutex, the    *)
(* socket, the WaitGroup, the message channel of readLoop).                *)
(***************************************************************************)
EXTENDS Integers, Sequences, FiniteSets, TLC

\* ------------------------------------------------------------------ bounds

\* Loop invocations the caller makes on one client.
MaxLoopCalls == 2
\* End-of-transmission frames are counted up to this number.
MaxEot == 2
\* Longest auth_token.js body, in symbols.
MaxBody == 3
\* Longest detach sequence and longest input stream of the detector runs.
MaxKeys == 3
MaxStream == 4
\* Frames in a run of readLoop's switch alone; tokens of a detach-keys option.
MaxFrames == 2
MaxTokens == 2

\* --------------------------------------------------------- program constants

OutputV1 == 48
PongV1 == 49
SetWindowTitleV1 == 50
SetPreferencesV1 == 51
SetReconnectV1 == 52
InputV1 == 48
PingV1 == 49
ResizeTerminalV1 == 50

UnknownOutput == 48
Output == 49
Pong == 50
SetWindowTitle == 51
SetPreferences == 52
SetReconnect == 53
UnknownInput == 48
Input == 49
Ping == 50
ResizeTerminal == 51

\* byte(4), the end-of-transmission byte writeLoop sends on io.EOF
EOT == 4
\* "ctrl-p" and "ctrl-q" of parseDetachKeys
CtrlP == 16
CtrlQ == 17
\* the only status GetAuthToken accepts
StatusOK == 200

\* The default of the detach-keys flag, "ctrl-p,ctrl-q", as parseDetachKeys
\* turns it into bytes.
EscapeKeys == <<CtrlP, CtrlQ>>

\* Bytes the local terminal delivers in the pump model: the two detach keys
\* and the letter 'a'.
InputBytes == {CtrlP, CtrlQ, 97}

\* The window size syscallTIOCGWINSZ reports: 24 rows, 80 columns.
TermSize == <<24, 80>>

\* ------------------------------------------------------------------- state

VARIABLES
    pc,            \* the place of every goroutine
    poison,        \* c.poison: "open" or "closed"
    WriteMutex,    \* c.WriteMutex: "free" or the goroutine that holds it
    Conn,          \* c.Conn: "nil", "open", or "closed" by Close
    Connected,     \* c.Connected
    V2,            \* c.V2
    message,       \* c.message (all tags 0: not yet initialised)
    authToken,     \* Connect's local authToken
    resp,          \* GetAuthToken's HTTP response
    ret,           \* what the last Loop call returned ("none": running or never called)
    loopCalls,     \* Loop invocations so far
    wg,            \* the WaitGroup counter of Loop
    first,         \* kind of the first frame written on the socket ("none": no frame yet)
    eot,           \* end-of-transmission frames written, counted up to MaxEot
    data,          \* writeLoop's payload for the frame it is writing
    escapeKeyPos,  \* the escape detector's match counter
    stdin,         \* "open" or "eof"
    winch,         \* termsizeLoop's signal channel (capacity 1) holds a signal
    helper,        \* readLoop's current reader goroutine: "none", "reading", "sending"
    oldReading,    \* helpers of finished readLoops still inside ReadMessage
    oldSending,    \* helpers of finished readLoops blocked on their message channel
    err,           \* writeLoop's err on its way to openPoison ("nil": none)
    msg,           \* readLoop's msg, the message of this turn of its loop
    OutputStream,  \* c.Output: the writes made to it, in order
    esc,           \* a run of the escape detector alone (specification SpecEsc)
    arrivals,      \* frames still to arrive in a run of readLoop's switch alone (SpecOut)
    flag,          \* a run of parseDetachKeys alone (SpecKeys)
    hostcfg        \* a run of Config.GetHostConfig alone (SpecHost)

vars == <<pc, poison, WriteMutex, Conn, Connected, V2, message, authToken, resp,
          ret, loopCalls, wg, first, eot, data, escapeKeyPos, stdin, winch,
          helper, oldReading, oldSending, err, msg, OutputStream, esc, arrivals, flag,
          hostcfg>>

connVars == <<Conn, Connected, message, authToken, resp>>
wireVars == <<WriteMutex, first, eot>>
inVars == <<data, escapeKeyPos, stdin, err>>
rdVars == <<helper, oldReading, oldSending>>
outVars == <<msg, OutputStream>>
\* The runs of the pure functions, which the session engine leaves alone.
harness == <<esc, arrivals, flag, hostcfg>>

ExitCallers == {"x1", "x2"}
PumpLoops == {"tsz", "rl", "wl"}
Procs == {"main", "ping"} \cup PumpLoops \cup ExitCallers

\* ------------------------------------------------------------- message tags

NilMessage ==
    [output |-> 0, pong |-> 0, setWindowTitle |-> 0, setPreferences |-> 0,
     setReconnect |-> 0, input |-> 0, ping |-> 0, resizeTerminal |-> 0]

\* A tag table in which pong has the tag of output.
initMessageTypeClash(v2) ==
    IF v2
    THEN [output |-> Output, pong |-> Output, setWindowTitle |-> SetWindowTitle,
          setPreferences |-> SetPreferences, setReconnect |-> SetReconnect,
          input |-> Input, ping |-> Ping, resizeTerminal |-> ResizeTerminal]
    ELSE [output |-> OutputV1, pong |-> OutputV1, setWindowTitle |-> SetWindowTitleV1,
          setPreferences |-> SetPreferencesV1, setReconnect |-> SetReconnectV1,
          input |-> InputV1, ping |-> PingV1, resizeTerminal |-> ResizeTerminalV1]

initMessageType(v2) ==
    IF v2
    THEN [output |-> Output, pong |-> Pong, setWindowTitle |-> SetWindowTitle,
          setPreferences |-> SetPreferences, setReconnect |-> SetReconnect,
          input |-> Input, ping |-> Ping, resizeTerminal |-> ResizeTerminal]
    ELSE [output |-> OutputV1, pong |-> PongV1, setWindowTitle |-> SetWindowTitleV1,
          setPreferences |-> SetPreferencesV1, setReconnect |-> SetReconnectV1,
          input |-> InputV1, ping |-> PingV1, resizeTerminal |-> ResizeTerminalV1]

\* ------------------------------------------------------------------ frames

\* A frame handed to Conn.WriteMessage: the negotiation message is the JSON
\* text carrying the token, every other frame is one tag byte and a payload.
Untagged(token) == [tagged |-> FALSE, tag |-> 0, payload |-> token]
Tagged(tag, payload) == [tagged |-> TRUE, tag |-> tag, payload |-> payload]

\* The frame goroutine p passes to c.write.
frameOf(p) ==
    CASE p = "main" -> Untagged(authToken)
      [] p = "ping" -> Tagged(message.ping, <<>>)
      [] p = "tsz"  -> Tagged(message.resizeTerminal, TermSize)
      [] p = "wl"   -> Tagged(message.input, data)

\* What a frame is to the server, under the tag table in force.
Kind(f) ==
    IF ~f.tagged THEN "neg"
    ELSE IF f.tag = message.input
         THEN (IF f.payload = <<EOT>> THEN "eot" ELSE "input")
    ELSE IF f.tag = message.ping THEN "ping"
    ELSE IF f.tag = message.resizeTerminal THEN "resize"
    ELSE "unknown"

TaggedKinds == {"input", "eot", "ping", "resize", "unknown"}

\* ------------------------------------------------------------ GetAuthToken

\* All sequences over S of length at most n.
SeqsUpTo(S, n) == UNION {[1..k -> S] : k \in 0..n}

\* The body of auth_token.js, in symbols: "P" is the text
\* "var gotty_auth_token = '", "q" a quote, "n" a line end, "x" any other
\* character.
BodySymbols == {"P", "q", "x", "n"}
Bodies == SeqsUpTo(BodySymbols, MaxBody)

\* What client.Do and ioutil.ReadAll give: fault "do" is a failed request,
\* fault "read" a body that cannot be read (after status 200).
NoResp == [fault |-> "none", status |-> 0, body |-> <<>>]
Statuses == {StatusOK, 204, 404}
Responses ==
    {[fault |-> "do", status |-> 0, body |-> <<>>],
     [fault |-> "read", status |-> StatusOK, body |-> <<>>]}
    \cup {[fault |-> "none", status |-> s, body |-> b] : s \in Statuses, b \in Bodies}

\* regexp "var gotty_auth_token = '(.*)'": the places a match of the prefix at
\* i can end, the dot matching no line end.
MatchEnds(body, i) ==
    {j \in (i + 1)..Len(body) :
        /\ body[j] = "q"
        /\ \A k \in (i + 1)..(j - 1) : body[k] # "n"}

MatchStarts(body) ==
    {i \in 1..Len(body) : body[i] = "P" /\ MatchEnds(body, i) # {}}

Least(S) == CHOOSE a \in S : \A b \in S : a <= b
Greatest(S) == CHOOSE a \in S : \A b \in S : b <= a

\* re.FindStringSubmatch: the leftmost match, its group as long as it can be;
\* <<>> when nothing matches, else <<the match, the group>>.
FindStringSubmatch(body) ==
    IF MatchStarts(body) = {} THEN <<>>
    ELSE LET i == Least(MatchStarts(body))
             j == Greatest(MatchEnds(body, i))
         IN  <<SubSeq(body, i, j), SubSeq(body, i + 1, j - 1)>>

\* A status check that lets every status through.
GetAuthTokenAnyStatus(r) ==
    IF r.fault # "none" THEN [err |-> TRUE, token |-> <<>>]
    ELSE LET output == FindStringSubmatch(r.body)
         IN  IF Len(output) = 0 THEN [err |-> TRUE, token |-> <<>>]
             ELSE [err |-> FALSE, token |-> output[2]]

\* GetAuthToken, from the response on: (authToken, err).
GetAuthToken(r) ==
    IF r.fault = "do" THEN [err |-> TRUE, token |-> <<>>]
    ELSE IF r.status # StatusOK THEN [err |-> TRUE, token |-> <<>>]
    ELSE IF r.fault = "read" THEN [err |-> TRUE, token |-> <<>>]
    ELSE LET output == FindStringSubmatch(r.body)
         IN  IF Len(output) = 0 THEN [err |-> TRUE, token |-> <<>>]
             ELSE [err |-> FALSE, token |-> output[2]]

\* ---------------------------------------------------------- escape detector

\* A detector that forgets the bytes it holds back when the match breaks.
EscapeStepDropsBuffer(keys, pos, b) ==
    IF b = keys[pos + 1]
    THEN IF pos + 1 = Len(keys)
         THEN [fwd |-> <<>>, pos |-> 0, detach |-> TRUE]
         ELSE [fwd |-> <<>>, pos |-> pos + 1, detach |-> FALSE]
    ELSE [fwd |-> <<b>>,
          pos |-> IF b = keys[1] THEN 1 ELSE 0,
          detach |-> FALSE]

\* A detector that starts from nothing after a broken match, whatever the
\* byte that broke it.
EscapeStepNoRestart(keys, pos, b) ==
    IF b = keys[pos + 1]
    THEN IF pos + 1 = Len(keys)
         THEN [fwd |-> <<>>, pos |-> 0, detach |-> TRUE]
         ELSE [fwd |-> <<>>, pos |-> pos + 1, detach |-> FALSE]
    ELSE [fwd |-> SubSeq(keys, 1, pos) \o <<b>>, pos |-> 0, detach |-> FALSE]

\* One input byte through the escape detector: what is forwarded, the new
\* match counter, and whether detach is signalled.
\*   b is the expected byte: the counter advances; at the sequence length
\*     detach is signalled, nothing is forwarded and the counter is reset;
\*   otherwise the pos buffered bytes and b are forwarded and the counter
\*     becomes 0, or 1 when b is the first byte of the sequence.
EscapeStep(keys, pos, b) ==
    IF b = keys[pos + 1]
    THEN IF pos + 1 = Len(keys)
         THEN [fwd |-> <<>>, pos |-> 0, detach |-> TRUE]
         ELSE [fwd |-> <<>>, pos |-> pos + 1, detach |-> FALSE]
    ELSE [fwd |-> SubSeq(keys, 1, pos) \o <<b>>,
          pos |-> IF b = keys[1] THEN 1 ELSE 0,
          detach |-> FALSE]


\* --------------------------------------------------------- readLoop's switch

\* readLoop's msg before anything was received.
NoMsg == [Err |-> "unset", Data |-> <<>>]

\* Frames the server sends: a tag byte '0'..'6' and a payload, here "MQ=="
\* (base64 of "1", not JSON), "1" (JSON, not base64) or "aGVsbG8=" (base64
\* of "hello").
Tags == 48..54
B64One == <<77, 81, 61, 61>>
JSONOne == <<49>>
Hello == <<97, 71, 86, 115, 98, 71, 56, 61>>
OutFrames == {<<t>> \o p : t \in Tags, p \in {B64One, JSONOne, Hello}}

\* The frames the server sends in the pump model, under the tag table in
\* force: a pong frame, an output frame with invalid base64, a setReconnect
\* frame that is not JSON and a frame with a tag of no table.  (What the
\* switch writes for every frame is followed in SpecOut.)
PumpFrames ==
    {<<message.pong>>, <<message.output>> \o JSONOne,
     <<message.setReconnect>> \o B64One, <<54>> \o JSONOne}

\* base64.StdEncoding: the value of a character of the alphabet
\* A-Z a-z 0-9 + /, -1 for any other character.
B64Index(c) ==
    IF c \in 65..90 THEN c - 65
    ELSE IF c \in 97..122 THEN c - 71
    ELSE IF c \in 48..57 THEN c + 4
    ELSE IF c = 43 THEN 62
    ELSE IF c = 47 THEN 63
    ELSE -1

\* One quantum of four characters: two or three characters and padding
\* give one or two bytes, four characters three bytes.
DecodeQuantum(q) ==
    LET pad == IF q[4] = 61 THEN (IF q[3] = 61 THEN 2 ELSE 1) ELSE 0
        v == [i \in 1..4 |-> IF i > 4 - pad THEN 0 ELSE B64Index(q[i])]
        n == v[1] * 262144 + v[2] * 4096 + v[3] * 64 + v[4]
        bytes == <<n \div 65536, (n \div 256) % 256, n % 256>>
    IN  [err |-> \E i \in 1..(4 - pad) : B64Index(q[i]) < 0,
         pad |-> pad,
         buf |-> SubSeq(bytes, 1, 3 - pad)]

RECURSIVE DecodeQuanta(_)
DecodeQuanta(s) ==
    IF s = <<>> THEN [err |-> FALSE, buf |-> <<>>]
    ELSE IF Len(s) < 4 THEN [err |-> TRUE, buf |-> <<>>]
    ELSE LET q == DecodeQuantum(SubSeq(s, 1, 4))
             rest == SubSeq(s, 5, Len(s))
         IN  IF q.err \/ (q.pad > 0 /\ rest # <<>>) THEN [err |-> TRUE, buf |-> <<>>]
             ELSE LET r == DecodeQuanta(rest)
                  IN  IF r.err THEN r ELSE [err |-> FALSE, buf |-> q.buf \o r.buf]

\* base64.StdEncoding.DecodeString: line ends are skipped, the rest is
\* decoded quantum by quantum, padding only in the last one.
DecodeString(s) == DecodeQuanta(SelectSeq(s, LAMBDA c : c \notin {10, 13}))

\* json.Unmarshal(s, &reconnectTimeout) without error: an integer literal or
\* null (for texts without white space).
Unmarshal(s) ==
    LET t == IF s # <<>> /\ s[1] = 45 THEN Tail(s) ELSE s
    IN  \/ /\ t # <<>>
           /\ \A i \in 1..Len(t) : t[i] \in 48..57
           /\ Len(t) = 1 \/ t[1] # 48
        \/ s = <<110, 117, 108, 108>>

\* The case "switch msg.Data[0]" takes under tag table m: the first case
\* whose tag equals the byte.
readLoopSwitch(m, d) ==
    IF d[1] = m.output THEN "output"
    ELSE IF d[1] = m.pong THEN "pong"
    ELSE IF d[1] = m.setWindowTitle THEN "setWindowTitle"
    ELSE IF d[1] = m.setPreferences THEN "setPreferences"
    ELSE IF d[1] = m.setReconnect THEN "setReconnect"
    ELSE "default"

\* fmt.Fprintf(c.Output, "\033]0;%s\007", newTitle)
TitleSequence(newTitle) == <<27, 93, 48, 59>> \o newTitle \o <<7>>

\* A switch that writes an output frame's payload as it came, not decoded.
readLoopWritesUndecoded(m, d) ==
    LET case == readLoopSwitch(m, d)
    IN  IF case = "output"
        THEN LET r == DecodeString(Tail(d))
             IN  IF r.err THEN <<>> ELSE <<Tail(d)>>
        ELSE IF case = "setWindowTitle" THEN <<TitleSequence(Tail(d))>>
        ELSE <<>>

\* A switch that writes the payload of an output frame it cannot decode.
readLoopWritesOnError(m, d) ==
    LET case == readLoopSwitch(m, d)
    IN  IF case = "output"
        THEN LET r == DecodeString(Tail(d))
             IN  IF r.err THEN <<Tail(d)>> ELSE <<r.buf>>
        ELSE IF case = "setWindowTitle" THEN <<TitleSequence(Tail(d))>>
        ELSE <<>>

\* The writes to c.Output one turn of the switch makes for the frame d: the
\* decoded payload of an output frame (none when the base64 is invalid), the
\* title sequence of a setWindowTitle frame, none in the other cases.
readLoopWrites(m, d) ==
    LET case == readLoopSwitch(m, d)
    IN  IF case = "output"
        THEN LET r == DecodeString(Tail(d))
             IN  IF r.err THEN <<>> ELSE <<r.buf>>
        ELSE IF case = "setWindowTitle" THEN <<TitleSequence(Tail(d))>>
        ELSE <<>>

\* The runs of the pure functions that are not running.
NoArrivals == [all |-> <<>>, rest |-> <<>>]
FlagIdle == [keys |-> <<>>, result |-> <<>>, parsed |-> FALSE]
NilHost == [Host |-> <<>>, User |-> <<>>]
HostIdle == [Hosts |-> <<>>, hostAlias |-> <<>>, result |-> NilHost, looked |-> FALSE]

\* -------------------------------------------------------------------- Init

\* The escape detector run that is not running.
EscIdle ==
    [keys |-> <<>>, rest |-> <<>>, pos |-> 0, out |-> <<>>, detached |-> 0, input |-> <<>>]

\* NewClient, then createClient's choice of c.V2; nothing has run yet.
NewClient ==
    /\ pc = [p \in Procs |-> IF p \in {"main"} \cup ExitCallers THEN "idle" ELSE "none"]
    /\ poison = "open"
    /\ WriteMutex = "free"
    /\ Conn = "nil"
    /\ Connected = FALSE
    /\ V2 \in BOOLEAN
    /\ message = NilMessage
    /\ authToken = <<>>
    /\ resp = NoResp
    /\ ret = "none"
    /\ loopCalls = 0
    /\ wg = 0
    /\ first = "none"
    /\ eot = 0
    /\ data = <<>>
    /\ escapeKeyPos = 0
    /\ stdin = "open"
    /\ winch = FALSE
    /\ helper = "none"
    /\ oldReading = 0
    /\ oldSending = 0
    /\ err = "nil"
    /\ msg = NoMsg
    /\ OutputStream = <<>>

Init ==
    /\ NewClient
    /\ esc = EscIdle
    /\ arrivals = NoArrivals
    /\ flag = FlagIdle
    /\ hostcfg = HostIdle

\* ------------------------------------------------------------------- write

\* c.write taking the guard without waiting for it.
writeLockUnguarded(p) ==
    /\ pc[p] = "w_lock"
    /\ WriteMutex' = p
    /\ pc' = [pc EXCEPT ![p] = "w_io"]
    /\ UNCHANGED <<poison, connVars, V2, ret, loopCalls, wg, first, eot, inVars,
                   winch, rdVars, outVars, harness>>

\* c.write, c.WriteMutex.Lock(): p waits for the guard and takes it; from
\* here to writeIO p is inside Conn.WriteMessage.
writeLock(p) ==
    /\ pc[p] = "w_lock"
    /\ WriteMutex = "free"
    /\ WriteMutex' = p
    /\ pc' = [pc EXCEPT ![p] = "w_io"]
    /\ UNCHANGED <<poison, connVars, V2, ret, loopCalls, wg, first, eot, inVars,
                   winch, rdVars, outVars, harness>>

\* c.write, Conn.WriteMessage returning (ok: without error) and the deferred
\* c.WriteMutex.Unlock().  The caller goes on from the result.
writeIO(p, ok) ==
    /\ pc[p] = "w_io"
    /\ ok => Conn = "open"
    /\ WriteMutex' = "free"
    /\ first' = IF ok /\ first = "none" THEN Kind(frameOf(p)) ELSE first
    /\ eot' = IF ok /\ Kind(frameOf(p)) = "eot" /\ eot < MaxEot THEN eot + 1 ELSE eot

InWrite == {p \in Procs : pc[p] = "w_io"}

\* ------------------------------------------------------- openPoison and die

\* How a goroutine ends: a pump loop's deferred wg.Done(), ExitLoop's return.
ended(p) == IF p \in PumpLoops THEN "done" ELSE "returned"
wgDone(p) == IF p \in PumpLoops THEN wg - 1 ELSE wg

\* readLoop returning leaves its reader helper behind.
leaveHelper(p) ==
    IF p = "rl"
    THEN /\ helper' = "none"
         /\ oldReading' = IF helper = "reading" THEN oldReading + 1 ELSE oldReading
         /\ oldSending' = IF helper = "sending" THEN oldSending + 1 ELSE oldSending
    ELSE UNCHANGED rdVars

\* openPoison without its deferred recover: the panic of close() on a closed
\* channel leaves openPoison and takes the goroutine down.
openPoisonNoRecover(p) ==
    /\ IF poison = "open"
       THEN /\ poison' = "closed"
            /\ pc' = [pc EXCEPT ![p] = ended(p)]
            /\ wg' = wgDone(p)
            /\ leaveHelper(p)
       ELSE /\ pc' = [pc EXCEPT ![p] = "crashed"]
            /\ UNCHANGED <<poison, wg, rdVars>>
    /\ err' = IF p = "wl" THEN "nil" ELSE err
    /\ msg' = IF p = "rl" THEN NoMsg ELSE msg
    /\ UNCHANGED <<wireVars, connVars, V2, ret, loopCalls, data, escapeKeyPos, stdin,
                   winch, OutputStream, harness>>

\* openPoison: close(poison) closes an open channel; on a closed channel it
\* panics and the deferred recover() stops the panic.  Either way openPoison
\* returns to its caller, which returns in turn (and its err or msg is gone).
openPoison(p) ==
    /\ poison' = "closed"
    /\ pc' = [pc EXCEPT ![p] = ended(p)]
    /\ wg' = wgDone(p)
    /\ leaveHelper(p)
    /\ err' = IF p = "wl" THEN "nil" ELSE err
    /\ msg' = IF p = "rl" THEN NoMsg ELSE msg
    /\ UNCHANGED <<wireVars, connVars, V2, ret, loopCalls, data, escapeKeyPos, stdin,
                   winch, OutputStream, harness>>

\* die in a loop that has no deferred wg.Done().
dieNoDone(p) ==
    /\ poison = "closed"
    /\ pc' = [pc EXCEPT ![p] = "done"]
    /\ wg' = wg
    /\ leaveHelper(p)
    /\ winch' = IF p = "tsz" THEN FALSE ELSE winch
    /\ UNCHANGED <<poison, wireVars, connVars, V2, ret, loopCalls, inVars, outVars, harness>>

\* "case <-c.poison: return die(fname, c.poison)".  Nothing is ever sent on
\* poison, so both receives, the select's and die's "wasOpen := <-poison",
\* return (false) once the channel is closed.
die(p) ==
    /\ poison = "closed"
    /\ pc' = [pc EXCEPT ![p] = "done"]
    /\ wg' = wg - 1
    /\ leaveHelper(p)
    /\ winch' = IF p = "tsz" THEN FALSE ELSE winch
    /\ UNCHANGED <<poison, wireVars, connVars, V2, ret, loopCalls, inVars, outVars, harness>>

\* ExitLoop: openPoison("ExitLoop", c.poison), from any goroutine of the caller.
ExitLoop(x) ==
    /\ pc[x] = "idle"
    /\ openPoison(x)

\* Close: c.Conn.Close(), by the caller once Loop has returned ("ExitLoop()
\* -> wait Loop() -> Close()").  On a closed socket every write fails and
\* every ReadMessage returns an error.
Close ==
    /\ pc["main"] = "idle"
    /\ Conn = "open"
    /\ Conn' = "closed"
    /\ UNCHANGED <<pc, poison, wireVars, Connected, message, authToken, resp, V2, ret,
                   loopCalls, wg, inVars, winch, rdVars, outVars, harness>>

\* -------------------------------------------------------- Loop and Connect

\* Loop returning e to its caller.
LoopReturn(e) ==
    /\ pc' = [pc EXCEPT !["main"] = "idle"]
    /\ ret' = e

HandshakeErrors == {"err_token", "err_dial", "err_write"}
TerminalErrors == {"err_terminal", "err_raw"}

\* Loop entered with a poison channel made anew.
LoopEnterFreshPoison ==
    /\ pc["main"] = "idle"
    /\ loopCalls < MaxLoopCalls
    /\ loopCalls' = loopCalls + 1
    /\ ret' = "none"
    /\ resp' = NoResp
    /\ poison' = "open"
    /\ pc' = [pc EXCEPT !["main"] = IF Connected THEN "term" ELSE "GetAuthToken"]
    /\ UNCHANGED <<wireVars, Conn, Connected, message, authToken, V2, wg,
                   inVars, winch, rdVars, outVars, harness>>

\* The caller calls Loop: "if !c.Connected" decides whether Connect runs.
LoopEnter ==
    /\ pc["main"] = "idle"
    /\ loopCalls < MaxLoopCalls
    /\ loopCalls' = loopCalls + 1
    /\ ret' = "none"
    /\ resp' = NoResp
    /\ pc' = [pc EXCEPT !["main"] = IF Connected THEN "term" ELSE "GetAuthToken"]
    /\ UNCHANGED <<poison, wireVars, Conn, Connected, message, authToken, V2, wg,
                   inVars, winch, rdVars, outVars, harness>>

\* Connect, c.GetAuthToken(): the request is made and the response is in.
ConnectFetch ==
    /\ pc["main"] = "GetAuthToken"
    /\ \E r \in Responses : resp' = r
    /\ pc' = [pc EXCEPT !["main"] = "token"]
    /\ UNCHANGED <<poison, wireVars, Conn, Connected, message, authToken, V2, ret,
                   loopCalls, wg, inVars, winch, rdVars, outVars, harness>>

\* Connect, "authToken, err := c.GetAuthToken(); if err != nil { return err }".
ConnectToken ==
    /\ pc["main"] = "token"
    /\ LET t == GetAuthToken(resp)
       IN  IF t.err
           THEN /\ LoopReturn("err_token")
                /\ UNCHANGED <<authToken, resp>>
           ELSE /\ authToken' = t.token
                /\ resp' = NoResp
                /\ pc' = [pc EXCEPT !["main"] = "Dial"]
                /\ ret' = ret
    /\ UNCHANGED <<poison, wireVars, Conn, Connected, message, V2, loopCalls, wg,
                   inVars, winch, rdVars, outVars, harness>>

\* The dial succeeding, with the ping loop started at once.
DialOKPingEarly ==
    /\ Conn' = "open"
    /\ Connected' = TRUE
    /\ message' = initMessageType(V2)
    /\ first' = "none"
    /\ pc' = [pc EXCEPT !["main"] = "w_lock", !["ping"] = "w_lock"]
    /\ ret' = ret
    /\ authToken' = authToken

\* Connect, the dial succeeding: c.Conn = conn, c.Connected = true,
\* c.initMessageType(); the negotiation message is written next.
DialOK ==
    /\ Conn' = "open"
    /\ Connected' = TRUE
    /\ message' = initMessageType(V2)
    /\ first' = "none"
    /\ pc' = [pc EXCEPT !["main"] = "w_lock"]
    /\ ret' = ret
    /\ authToken' = authToken

\* Connect, c.Dialer.Dial.
ConnectDial ==
    /\ pc["main"] = "Dial"
    /\ \/ DialOK
       \/ /\ LoopReturn("err_dial")
          /\ authToken' = <<>>
          /\ UNCHANGED <<Conn, Connected, message, first>>
    /\ UNCHANGED <<poison, WriteMutex, eot, resp, V2, loopCalls, wg, inVars, winch,
                   rdVars, outVars, harness>>

\* Connect, "err = c.write(queryJSON); if err != nil { return err }".
ConnectWrite ==
    \/ writeLock("main")
    \/ /\ \E ok \in BOOLEAN :
            /\ writeIO("main", ok)
            /\ IF ok
               THEN pc' = [pc EXCEPT !["main"] = "sleep"] /\ ret' = ret
               ELSE LoopReturn("err_write")
       /\ authToken' = <<>>
       /\ UNCHANGED <<poison, Conn, Connected, message, resp, V2, loopCalls, wg,
                      inVars, winch, rdVars, outVars, harness>>

\* Connect, after the 100 ms sleep: "go c.pingLoop()", return nil.
ConnectPing ==
    /\ pc["main"] = "sleep"
    /\ pc' = [pc EXCEPT !["main"] = "term", !["ping"] = "w_lock"]
    /\ UNCHANGED <<poison, wireVars, connVars, V2, ret, loopCalls, wg, inVars,
                   winch, rdVars, outVars, harness>>

\* Loop, console.ConsoleFromFile(os.Stdout) and term.SetRaw().
LoopTerminal ==
    /\ pc["main"] = "term"
    /\ \/ pc' = [pc EXCEPT !["main"] = "go_termsize"] /\ ret' = ret
       \/ \E e \in TerminalErrors : LoopReturn(e)
    /\ UNCHANGED <<poison, wireVars, connVars, V2, loopCalls, wg, inVars, winch,
                   rdVars, outVars, harness>>

\* Loop, "wg.Add(1); go c.termsizeLoop(wg)": the loop makes its signal
\* channel and asks for SIGWINCH.
LoopGoTermsize ==
    /\ pc["main"] = "go_termsize"
    /\ wg' = wg + 1
    /\ winch' = FALSE
    /\ pc' = [pc EXCEPT !["main"] = "go_read", !["tsz"] = "init"]
    /\ UNCHANGED <<poison, wireVars, connVars, V2, ret, loopCalls, inVars, rdVars, outVars, harness>>

\* Loop, "wg.Add(1); go c.readLoop(wg)".
LoopGoRead ==
    /\ pc["main"] = "go_read"
    /\ wg' = wg + 1
    /\ pc' = [pc EXCEPT !["main"] = "go_write", !["rl"] = "spawn"]
    /\ UNCHANGED <<poison, wireVars, connVars, V2, ret, loopCalls, inVars, winch,
                   rdVars, outVars, harness>>

\* Loop, "wg.Add(1); go c.writeLoop(wg)": the loop makes its escape proxy.
LoopGoWrite ==
    /\ pc["main"] = "go_write"
    /\ wg' = wg + 1
    /\ escapeKeyPos' = 0
    /\ pc' = [pc EXCEPT !["main"] = "wait", !["wl"] = "loop"]
    /\ UNCHANGED <<poison, wireVars, connVars, V2, ret, loopCalls, data, stdin, err,
                   winch, rdVars, outVars, harness>>

\* A Loop that makes the handshake again once its pump is over.
LoopWaitReconnects ==
    /\ pc["main"] = "wait"
    /\ wg = 0
    /\ pc' = [pc EXCEPT !["main"] = "GetAuthToken"]
    /\ ret' = ret
    /\ UNCHANGED <<poison, wireVars, connVars, V2, loopCalls, wg, inVars, winch,
                   rdVars, outVars, harness>>

\* A Loop that returns an error when its pump is over.
LoopWaitReturnsError ==
    /\ pc["main"] = "wait"
    /\ wg = 0
    /\ LoopReturn("err_write")
    /\ UNCHANGED <<poison, wireVars, connVars, V2, loopCalls, wg, inVars, winch,
                   rdVars, outVars, harness>>

\* Loop, wg.Wait(), the deferred term.Reset() and "return nil".
LoopWait ==
    /\ pc["main"] = "wait"
    /\ wg = 0
    /\ LoopReturn("nil")
    /\ UNCHANGED <<poison, wireVars, connVars, V2, loopCalls, wg, inVars, winch,
                   rdVars, outVars, harness>>

Connect == ConnectFetch \/ ConnectToken \/ ConnectDial \/ ConnectWrite \/ ConnectPing

Loop ==
    \/ LoopEnter
    \/ Connect
    \/ LoopTerminal
    \/ LoopGoTermsize
    \/ LoopGoRead
    \/ LoopGoWrite
    \/ LoopWait

\* ---------------------------------------------------------------- pingLoop

\* A ping loop that triggers the shutdown signal and returns when its write
\* has failed.
pingLoopGivesUp ==
    \/ writeLock("ping")
    \/ /\ \E ok \in BOOLEAN :
            /\ writeIO("ping", ok)
            /\ pc' = [pc EXCEPT !["ping"] = IF ok THEN "w_lock" ELSE "w_err"]
       /\ UNCHANGED <<poison, connVars, V2, ret, loopCalls, wg, inVars, winch,
                      rdVars, outVars, harness>>
    \/ /\ pc["ping"] = "w_err"
       /\ pc' = [pc EXCEPT !["ping"] = "done"]
       /\ poison' = "closed"
       /\ UNCHANGED <<wireVars, connVars, V2, ret, loopCalls, wg, inVars,
                      winch, rdVars, outVars, harness>>

\* pingLoop: "for { err := c.write([]byte{c.message.ping}); ...;
\* time.Sleep(30 * time.Second) }".  A write error is logged; nothing leaves
\* the loop, so after the sleep the next write begins.
pingLoop ==
    \/ writeLock("ping")
    \/ \* "if err != nil"
       /\ \E ok \in BOOLEAN :
            /\ writeIO("ping", ok)
            /\ pc' = [pc EXCEPT !["ping"] = IF ok THEN "w_lock" ELSE "w_err"]
       /\ UNCHANGED <<poison, connVars, V2, ret, loopCalls, wg, inVars, winch,
                      rdVars, outVars, harness>>
    \/ \* "logrus.Warnf("c.write: %v", err)", then the sleep as after any write
       /\ pc["ping"] = "w_err"
       /\ pc' = [pc EXCEPT !["ping"] = "w_lock"]
       /\ UNCHANGED <<poison, wireVars, connVars, V2, ret, loopCalls, wg, inVars,
                      winch, rdVars, outVars, harness>>

\* ------------------------------------------------------------ termsizeLoop

\* A window-size signal arrives while termsizeLoop has asked for them; the
\* channel holds one signal, a second one is dropped.
SIGWINCH ==
    /\ pc["tsz"] \in {"init", "w_lock", "w_io", "w_err", "q_err", "select"}
    /\ ~winch
    /\ winch' = TRUE
    /\ UNCHANGED <<pc, poison, wireVars, connVars, V2, ret, loopCalls, wg, inVars,
                   rdVars, outVars, harness>>

\* termsizeLoop, "if b, err := syscallTIOCGWINSZ(); err != nil { log } else
\* { c.write(resize frame) }": the frame is written next, or the query fails.
termsizeQuery ==
    \/ pc' = [pc EXCEPT !["tsz"] = "w_lock"]
    \/ pc' = [pc EXCEPT !["tsz"] = "q_err"]

\* A resize loop that triggers the shutdown signal and returns when the
\* terminal-size query has failed.
termsizeQueryFailedEscalates ==
    /\ pc["tsz"] = "q_err"
    /\ openPoison("tsz")

\* termsizeLoop, the branch "err != nil" of syscallTIOCGWINSZ: the error is
\* logged (logrus.Debugf at first, logrus.Warn later), nothing more, and the
\* loop is at its select.
termsizeQueryFailed ==
    /\ pc["tsz"] = "q_err"
    /\ pc' = [pc EXCEPT !["tsz"] = "select"]
    /\ UNCHANGED <<poison, wireVars, connVars, V2, ret, loopCalls, wg, inVars,
                   winch, rdVars, outVars, harness>>

termsizeLoop ==
    \/ \* after the 200 ms sleep: the initial resize
       /\ pc["tsz"] = "init"
       /\ termsizeQuery
       /\ UNCHANGED <<poison, wireVars, connVars, V2, ret, loopCalls, wg, inVars,
                      winch, rdVars, outVars, harness>>
    \/ writeLock("tsz")
    \/ \* "if err = c.write(...); err != nil"
       /\ \E ok \in BOOLEAN :
            /\ writeIO("tsz", ok)
            /\ pc' = [pc EXCEPT !["tsz"] = IF ok THEN "select" ELSE "w_err"]
       /\ UNCHANGED <<poison, connVars, V2, ret, loopCalls, wg, inVars, winch,
                      rdVars, outVars, harness>>
    \/ \* "logrus.Warnf("ws.WriteMessage failed: %v", err)", nothing more
       /\ pc["tsz"] = "w_err"
       /\ pc' = [pc EXCEPT !["tsz"] = "select"]
       /\ UNCHANGED <<poison, wireVars, connVars, V2, ret, loopCalls, wg, inVars,
                      winch, rdVars, outVars, harness>>
    \/ termsizeQueryFailed
    \/ \* select, case <-c.poison
       /\ pc["tsz"] = "select"
       /\ die("tsz")
    \/ \* select, case <-ch
       /\ pc["tsz"] = "select"
       /\ winch
       /\ winch' = FALSE
       /\ termsizeQuery
       /\ UNCHANGED <<poison, wireVars, connVars, V2, ret, loopCalls, wg, inVars,
                      rdVars, outVars, harness>>

\* --------------------------------------------------------------- writeLoop

\* An input loop that tells the server of a detach with an
\* end-of-transmission frame before it leaves.
writeLoopReadNotifies ==
    /\ pc["wl"] = "loop"
    /\ poison = "open"
    /\ \/ /\ pc' = [pc EXCEPT !["wl"] = "op_close"]
          /\ err' \in {"select", "read"}
          /\ UNCHANGED <<data, escapeKeyPos, stdin>>
       \/ /\ stdin = "open"
          /\ \E b \in InputBytes :
               LET r == EscapeStep(EscapeKeys, escapeKeyPos, b)
               IN  /\ escapeKeyPos' = r.pos
                   /\ IF r.detach
                      THEN pc' = [pc EXCEPT !["wl"] = "w_lock"] /\ data' = <<EOT>>
                      ELSE IF r.fwd = <<>>
                      THEN pc' = [pc EXCEPT !["wl"] = "loop"] /\ data' = data
                      ELSE pc' = [pc EXCEPT !["wl"] = "w_lock"] /\ data' = r.fwd
                   /\ err' = IF r.detach THEN "escape" ELSE err
          /\ stdin' = stdin
       \/ /\ stdin' = "eof"
          /\ data' = <<EOT>>
          /\ escapeKeyPos' = escapeKeyPos
          /\ err' = err
          /\ pc' = [pc EXCEPT !["wl"] = "w_lock"]
    /\ UNCHANGED <<poison, wireVars, connVars, V2, ret, loopCalls, wg, winch,
                   rdVars, outVars, harness>>

\* writeLoop, one turn of the loop with the poison channel open: RetrySelect
\* on stdin, then pr.Read.  (When stdin is not readable within the timeout
\* the turn changes nothing.)
writeLoopRead ==
    /\ pc["wl"] = "loop"
    /\ poison = "open"
    /\ \/ \* RetrySelect fails (not EINTR), or pr.Read fails with an error
          \* other than io.EOF: openPoison
          /\ pc' = [pc EXCEPT !["wl"] = "op_close"]
          /\ err' \in {"select", "read"}
          /\ UNCHANGED <<data, escapeKeyPos, stdin>>
       \/ \* a byte is read through the escape proxy: detach is an error of
          \* pr.Read; no byte forwarded is "size <= 0"; else the frame Input,
          \* data is written next
          /\ stdin = "open"
          /\ \E b \in InputBytes :
               LET r == EscapeStep(EscapeKeys, escapeKeyPos, b)
               IN  /\ escapeKeyPos' = r.pos
                   /\ IF r.detach
                      THEN pc' = [pc EXCEPT !["wl"] = "op_close"] /\ data' = data
                      ELSE IF r.fwd = <<>>
                      THEN pc' = [pc EXCEPT !["wl"] = "loop"] /\ data' = data
                      ELSE pc' = [pc EXCEPT !["wl"] = "w_lock"] /\ data' = r.fwd
                   /\ err' = IF r.detach THEN "escape" ELSE err
          /\ stdin' = stdin
       \/ \* pr.Read returns io.EOF: the frame Input, byte(4) is written next
          /\ stdin' = "eof"
          /\ data' = <<EOT>>
          /\ escapeKeyPos' = escapeKeyPos
          /\ err' = err
          /\ pc' = [pc EXCEPT !["wl"] = "w_lock"]
    /\ UNCHANGED <<poison, wireVars, connVars, V2, ret, loopCalls, wg, winch,
                   rdVars, outVars, harness>>

writeLoop ==
    \/ \* select, case <-c.poison
       /\ pc["wl"] = "loop"
       /\ die("wl")
    \/ writeLoopRead
    \/ writeLock("wl")
    \/ \* "if err != nil { return openPoison(...) }"; else "continue" after the
       \* end-of-transmission frame, the next turn after a data frame
       /\ \E ok \in BOOLEAN :
            /\ writeIO("wl", ok)
            /\ pc' = [pc EXCEPT !["wl"] = IF ok THEN "loop" ELSE "op_close"]
            /\ err' = IF ok THEN err ELSE "write"
       /\ data' = <<>>
       /\ UNCHANGED <<poison, connVars, V2, ret, loopCalls, wg, escapeKeyPos, stdin,
                      winch, rdVars, outVars, harness>>
    \/ /\ pc["wl"] = "op_close"
       /\ openPoison("wl")

\* ---------------------------------------------------------------- readLoop

\* What readLoop receives from its helper, MessageNonBlocking{Data, Err}:
\* Conn.ReadMessage's error (a close error or another one), or a frame, which
\* may be empty.
Messages ==
    {[Err |-> e, Data |-> <<>>] : e \in {"close_error", "error"}}
    \cup {[Err |-> "nil", Data |-> d] : d \in {<<>>} \cup PumpFrames}

\* readLoop's helper goroutine: "_, data, err := c.Conn.ReadMessage()"
\* returns; the helper then blocks on "msgChan <- ..." until readLoop
\* receives.  A helper whose readLoop has returned blocks there for good.
readHelper ==
    \/ /\ helper = "reading"
       /\ helper' = "sending"
       /\ UNCHANGED <<pc, poison, wireVars, connVars, V2, ret, loopCalls, wg, inVars,
                      winch, oldReading, oldSending, outVars, harness>>
    \/ /\ oldReading > 0
       /\ oldReading' = oldReading - 1
       /\ oldSending' = oldSending + 1
       /\ UNCHANGED <<pc, poison, wireVars, connVars, V2, ret, loopCalls, wg, inVars,
                      winch, helper, outVars, harness>>

\* An output loop that goes round for the next frame whatever it received.
readLoopReceiveGoesOn(m) ==
    /\ pc["rl"] = "select"
    /\ helper = "sending"
    /\ helper' = "none"
    /\ msg' = m
    /\ pc' = [pc EXCEPT !["rl"] = "spawn"]
    /\ OutputStream' =
         IF m.Err # "nil" \/ Len(m.Data) = 0 THEN OutputStream
         ELSE OutputStream \o readLoopWrites(message, m.Data)
    /\ UNCHANGED <<poison, wireVars, connVars, V2, ret, loopCalls, wg, inVars,
                   winch, oldReading, oldSending, harness>>

\* readLoop, "case msg := <-msgChan": an error or an empty frame goes to
\* openPoison; any other frame goes through the switch on its tag, which
\* writes to c.Output or not, and the loop goes round.
readLoopReceive(m) ==
    /\ pc["rl"] = "select"
    /\ helper = "sending"
    /\ Conn = "closed" => m.Err # "nil"
    /\ helper' = "none"
    /\ msg' = m
    /\ IF m.Err # "nil" \/ Len(m.Data) = 0
       THEN /\ pc' = [pc EXCEPT !["rl"] = "op_close"]
            /\ OutputStream' = OutputStream
       ELSE /\ pc' = [pc EXCEPT !["rl"] = "spawn"]
            /\ OutputStream' = OutputStream \o readLoopWrites(message, m.Data)
    /\ UNCHANGED <<poison, wireVars, connVars, V2, ret, loopCalls, wg, inVars,
                   winch, oldReading, oldSending, harness>>

readLoop ==
    \/ \* the next turn of the loop: "go func() { ... }()"
       /\ pc["rl"] = "spawn"
       /\ helper' = "reading"
       /\ msg' = NoMsg
       /\ pc' = [pc EXCEPT !["rl"] = "select"]
       /\ UNCHANGED <<poison, wireVars, connVars, V2, ret, loopCalls, wg, inVars,
                      winch, oldReading, oldSending, OutputStream, harness>>
    \/ \* select, case <-c.poison
       /\ pc["rl"] = "select"
       /\ die("rl")
    \/ \E m \in Messages : readLoopReceive(m)
    \/ /\ pc["rl"] = "op_close"
       /\ openPoison("rl")

\* ------------------------------------------------------------ specification

Next ==
    \/ Loop
    \/ pingLoop
    \/ termsizeLoop
    \/ writeLoop
    \/ readLoop
    \/ readHelper
    \/ SIGWINCH
    \/ \E x \in ExitCallers : ExitLoop(x)
    \/ Close

Spec == Init /\ [][Next]_vars

\* Loop running, from its first statement to its return; every goroutine is
\* scheduled again and again.  Calling Loop or ExitLoop, a window-size signal
\* and a frame from the server are up to the environment.
LoopRun ==
    \/ Connect
    \/ LoopTerminal
    \/ LoopGoTermsize
    \/ LoopGoRead
    \/ LoopGoWrite
    \/ LoopWait

FairSpec ==
    /\ Spec
    /\ WF_vars(LoopRun)
    /\ WF_vars(pingLoop)
    /\ WF_vars(termsizeLoop)
    /\ WF_vars(writeLoop)
    /\ WF_vars(readLoop)

\* ------------------------------------------------- the escape detector alone

DetectorBytes == {CtrlP, CtrlQ}

\* Every non-empty detach sequence and every input stream within the bounds.
EscInputs ==
    {[keys |-> k, rest |-> i, pos |-> 0, out |-> <<>>, detached |-> 0, input |-> i] :
        k \in SeqsUpTo(DetectorBytes, MaxKeys) \ {<<>>},
        i \in SeqsUpTo(DetectorBytes, MaxStream)}

\* The input loop reads the next byte through the detector, until the
\* detector signals detach (the loop then returns) or the input ends.
EscapeRead ==
    /\ esc.rest # <<>>
    /\ esc.detached = 0
    /\ LET r == EscapeStep(esc.keys, esc.pos, Head(esc.rest))
       IN  esc' = [esc EXCEPT !.rest = Tail(esc.rest),
                              !.pos = r.pos,
                              !.out = esc.out \o r.fwd,
                              !.detached = IF r.detach THEN 1 ELSE 0]
    /\ UNCHANGED <<pc, poison, wireVars, connVars, V2, ret, loopCalls, wg, inVars,
                   winch, rdVars, outVars, arrivals, flag, hostcfg>>

InitEsc ==
    /\ NewClient
    /\ esc \in EscInputs
    /\ arrivals = NoArrivals
    /\ flag = FlagIdle
    /\ hostcfg = HostIdle
SpecEsc == InitEsc /\ [][EscapeRead]_vars

EscFinished == esc.rest = <<>> \/ esc.detached = 1

\* The places where keys occurs in input as a contiguous subsequence.
Occurrences(input, keys) ==
    {i \in 1..(Len(input) - Len(keys) + 1) :
        SubSeq(input, i, i + Len(keys) - 1) = keys}

\* ------------------------------------------------- readLoop's switch alone

\* The pump as Loop has started it on a negotiated connection, before any
\* loop has done anything: Loop at wg.Wait(), readLoop at its select with its
\* helper inside ReadMessage.
PumpStarted ==
    /\ pc = [p \in Procs |->
               CASE p = "main" -> "wait"
                 [] p = "ping" -> "w_lock"
                 [] p = "tsz"  -> "init"
                 [] p = "rl"   -> "select"
                 [] p = "wl"   -> "loop"
                 [] OTHER      -> "idle"]
    /\ poison = "open"
    /\ WriteMutex = "free"
    /\ Conn = "open"
    /\ Connected = TRUE
    /\ V2 \in BOOLEAN
    /\ message = initMessageType(V2)
    /\ authToken = <<>>
    /\ resp = NoResp
    /\ ret = "none"
    /\ loopCalls = 1
    /\ wg = 3
    /\ first = "neg"
    /\ eot = 0
    /\ data = <<>>
    /\ escapeKeyPos = 0
    /\ stdin = "open"
    /\ winch = FALSE
    /\ helper = "reading"
    /\ oldReading = 0
    /\ oldSending = 0
    /\ err = "nil"
    /\ msg = NoMsg
    /\ OutputStream = <<>>

\* ------------------------------------------------------------ the pump alone

\* Loop after a handshake and a terminal setup that succeeded, about to start
\* its three loops: the ping loop runs, the shutdown signal is untriggered.
\* (The client is a v2 one; the v1 tag table differs in its tag bytes only.)
PumpReady ==
    /\ pc = [p \in Procs |->
               CASE p = "main" -> "go_termsize"
                 [] p = "ping" -> "w_lock"
                 [] p \in PumpLoops -> "none"
                 [] OTHER      -> "idle"]
    /\ poison = "open"
    /\ WriteMutex = "free"
    /\ Conn = "open"
    /\ Connected = TRUE
    /\ V2 = TRUE
    /\ message = initMessageType(V2)
    /\ authToken = <<>>
    /\ resp = NoResp
    /\ ret = "none"
    /\ loopCalls = 1
    /\ wg = 0
    /\ first = "neg"
    /\ eot = 0
    /\ data = <<>>
    /\ escapeKeyPos = 0
    /\ stdin = "open"
    /\ winch = FALSE
    /\ helper = "none"
    /\ oldReading = 0
    /\ oldSending = 0
    /\ err = "nil"
    /\ msg = NoMsg
    /\ OutputStream = <<>>

InitPump ==
    /\ PumpReady
    /\ esc = EscIdle
    /\ arrivals = NoArrivals
    /\ flag = FlagIdle
    /\ hostcfg = HostIdle

\* Loop from the start of its loops to its return.
PumpRun ==
    \/ LoopGoTermsize
    \/ LoopGoRead
    \/ LoopGoWrite
    \/ LoopWait

\* One Loop invocation's pump: Loop, the four loops, the reader helper, the
\* window-size signal and the callers of ExitLoop.
NextPump ==
    \/ PumpRun
    \/ pingLoop
    \/ termsizeLoop
    \/ writeLoop
    \/ readLoop
    \/ readHelper
    \/ SIGWINCH
    \/ \E x \in ExitCallers : ExitLoop(x)

SpecPump == InitPump /\ [][NextPump]_vars

\* The pump under the fairness the Go runtime gives: every goroutine is
\* scheduled again and again; a goroutine that waits for c.WriteMutex gets it
\* in the end (sync.Mutex hands the lock to a starving waiter); a select with
\* several ready cases picks each of them in the end (its choice is uniformly
\* random), so a loop whose poison case is ready again and again takes it.
LivePump ==
    /\ SpecPump
    /\ WF_vars(PumpRun)
    /\ WF_vars(pingLoop)
    /\ WF_vars(readLoop)
    /\ SF_vars(termsizeLoop)
    /\ SF_vars(writeLoop)
    /\ SF_vars(pc["tsz"] = "select" /\ die("tsz"))
    /\ SF_vars(pc["rl"] = "select" /\ die("rl"))

\* Every sequence of at most MaxFrames frames the server may send.
OutInputs == {[all |-> a, rest |-> a] : a \in SeqsUpTo(OutFrames, MaxFrames)}

\* One turn of readLoop for the next frame to arrive: the helper's
\* ReadMessage returns it, readLoop receives it, the switch on its tag writes
\* to c.Output or not, and the next turn starts another helper.
OutputRead ==
    /\ arrivals.rest # <<>>
    /\ pc["rl"] = "select"
    /\ poison = "open"
    /\ LET d == Head(arrivals.rest)
       IN  /\ msg' = [Err |-> "nil", Data |-> d]
           /\ OutputStream' = OutputStream \o readLoopWrites(message, d)
    /\ arrivals' = [arrivals EXCEPT !.rest = Tail(arrivals.rest)]
    /\ UNCHANGED <<pc, poison, wireVars, connVars, V2, ret, loopCalls, wg, inVars,
                   winch, rdVars, esc, flag, hostcfg>>

InitOut ==
    /\ PumpStarted
    /\ esc = EscIdle
    /\ arrivals \in OutInputs
    /\ flag = FlagIdle
    /\ hostcfg = HostIdle

SpecOut == InitOut /\ [][OutputRead]_vars

\* The frames of the run that readLoop has been through.
Arrived == SubSeq(arrivals.all, 1, Len(arrivals.all) - Len(arrivals.rest))

\* The bytes of a sequence of writes, in order.
RECURSIVE Flatten(_)
Flatten(ws) == IF ws = <<>> THEN <<>> ELSE Head(ws) \o Flatten(Tail(ws))

\* ------------------------------------------------------ parseDetachKeys alone

\* strings.ToLower and strings.TrimSpace on texts of ASCII characters.
ToLower(t) == [i \in 1..Len(t) |-> IF t[i] \in 65..90 THEN t[i] + 32 ELSE t[i]]

WhiteSpace == {9, 10, 11, 12, 13, 32}

RECURSIVE TrimLeft(_)
TrimLeft(t) == IF t # <<>> /\ Head(t) \in WhiteSpace THEN TrimLeft(Tail(t)) ELSE t

RECURSIVE TrimRight(_)
TrimRight(t) ==
    IF t # <<>> /\ t[Len(t)] \in WhiteSpace THEN TrimRight(SubSeq(t, 1, Len(t) - 1)) ELSE t

TrimSpace(t) == TrimRight(TrimLeft(t))

\* strings.Split(keys, ","): the parts between the commas, at least one.
RECURSIVE Split(_)
Split(keys) ==
    LET commas == {i \in 1..Len(keys) : keys[i] = 44}
    IN  IF commas = {} THEN <<keys>>
        ELSE LET i == Least(commas)
             IN  <<SubSeq(keys, 1, i - 1)>> \o Split(SubSeq(keys, i + 1, Len(keys)))

\* "ctrl-" and the letters parseDetachKeys knows, each with its byte.
CtrlPrefix == <<99, 116, 114, 108, 45>>
CtrlNames ==
    [c \in {97, 98, 99, 100, 101, 112, 113, 120, 122} |->
        CASE c = 97 -> 1 [] c = 98 -> 2 [] c = 99 -> 3 [] c = 100 -> EOT
          [] c = 101 -> 5 [] c = 112 -> CtrlP [] c = 113 -> CtrlQ
          [] c = 120 -> 24 [] c = 122 -> 26]

\* The switch of parseDetachKeys on one part, lowered and trimmed.
partBytes(part) ==
    IF Len(part) = 6 /\ SubSeq(part, 1, 5) = CtrlPrefix /\ part[6] \in DOMAIN CtrlNames
    THEN <<CtrlNames[part[6]]>>
    ELSE IF Len(part) = 1 THEN <<part[1]>>
    ELSE <<>>

RECURSIVE appendParts(_)
appendParts(parts) ==
    IF parts = <<>> THEN <<>>
    ELSE partBytes(TrimSpace(ToLower(Head(parts)))) \o appendParts(Tail(parts))

parseDetachKeys(keys) == appendParts(Split(keys))

\* Tokens of the option: "ctrl-p", "CTRL-Q", " ctrl-x", "ctrl-f", "ab", "a",
\* "A", "~", " " and the empty token.
Tokens ==
    {<<99, 116, 114, 108, 45, 112>>, <<67, 84, 82, 76, 45, 81>>,
     <<32, 99, 116, 114, 108, 45, 120>>, <<99, 116, 114, 108, 45, 102>>,
     <<97, 98>>, <<97>>, <<65>>, <<126>>, <<32>>, <<>>}

\* The tokens with commas between them.
RECURSIVE Join(_)
Join(ts) ==
    IF Len(ts) = 1 THEN Head(ts) ELSE Head(ts) \o <<44>> \o Join(Tail(ts))

FlagInputs ==
    {[keys |-> Join(ts), result |-> <<>>, parsed |-> FALSE] :
        ts \in SeqsUpTo(Tokens, MaxTokens) \ {<<>>}}

\* "client.EscapeKeys = parseDetachKeys(detachKeys)"
ParseKeys ==
    /\ ~flag.parsed
    /\ flag' = [flag EXCEPT !.result = parseDetachKeys(flag.keys), !.parsed = TRUE]
    /\ UNCHANGED <<pc, poison, wireVars, connVars, V2, ret, loopCalls, wg, inVars,
                   winch, rdVars, outVars, esc, arrivals, hostcfg>>

InitKeys ==
    /\ NewClient
    /\ esc = EscIdle
    /\ arrivals = NoArrivals
    /\ flag \in FlagInputs
    /\ hostcfg = HostIdle

SpecKeys == InitKeys /\ [][ParseKeys]_vars

\* ---------------------------------------------------- GetHostConfig alone

\* Host names and patterns, as texts of the symbols "*", "." and names:
\* "*", "*.i", "p.*", "p.i"; the aliases asked for: "p.i", "d.i", "x".
Star == <<"*">>
Patterns == {Star, <<"*", ".", "i">>, <<"p", ".", "*">>, <<"p", ".", "i">>}
Aliases == {<<"p", ".", "i">>, <<"d", ".", "i">>, <<"x">>}

HasPrefix(t, prefix) ==
    Len(prefix) <= Len(t) /\ SubSeq(t, 1, Len(prefix)) = prefix
HasSuffix(t, suffix) ==
    Len(suffix) <= Len(t) /\ SubSeq(t, Len(t) - Len(suffix) + 1, Len(t)) = suffix

matchPattern(pattern, str) ==
    IF pattern = Star THEN TRUE
    ELSE IF HasPrefix(pattern, <<"*", ".">>)
    THEN HasSuffix(str, Tail(pattern))
    ELSE IF HasSuffix(pattern, <<".", "*">>)
    THEN HasPrefix(str, SubSeq(pattern, 1, Len(pattern) - 2))
    ELSE pattern = str

\* A Host block of the file: its name and its User option (empty: not set;
\* the value a block sets tells the blocks apart).
HostBlock(name, sets) ==
    [Host |-> name, User |-> IF sets THEN <<"user of">> \o name ELSE <<>>]

\* c.Hosts: a map from the names of the file's Host blocks to the blocks.
HostMaps ==
    UNION {{[name \in D |-> HostBlock(name, name \in S)] : S \in SUBSET D} :
             D \in SUBSET Patterns}

HostInputs ==
    {[Hosts |-> h, hostAlias |-> a, result |-> NilHost, looked |-> FALSE] :
        h \in HostMaps, a \in Aliases}

\* The blocks GetHostConfig can return: the exact match; else the block of
\* the first pattern that "for pattern, host := range c.Hosts" comes to and
\* that matches, the order of a map's range being any order; else the "*"
\* block; else nil (NilHost).
GetHostConfig(Hosts, hostAlias) ==
    IF hostAlias \in DOMAIN Hosts THEN {Hosts[hostAlias]}
    ELSE LET matching == {pattern \in DOMAIN Hosts : matchPattern(pattern, hostAlias)}
         IN  IF matching # {} THEN {Hosts[pattern] : pattern \in matching}
             ELSE IF Star \in DOMAIN Hosts THEN {Hosts[Star]}
             ELSE {NilHost}

\* createClient, "hostConfig = config.GetHostConfig(urlOrAlias)".
HostLookup ==
    /\ ~hostcfg.looked
    /\ \E host \in GetHostConfig(hostcfg.Hosts, hostcfg.hostAlias) :
         hostcfg' = [hostcfg EXCEPT !.result = host, !.looked = TRUE]
    /\ UNCHANGED <<pc, poison, wireVars, connVars, V2, ret, loopCalls, wg, inVars,
                   winch, rdVars, outVars, esc, arrivals, flag>>

InitHost ==
    /\ NewClient
    /\ esc = EscIdle
    /\ arrivals = NoArrivals
    /\ flag = FlagIdle
    /\ hostcfg \in HostInputs

SpecHost == InitHost /\ [][HostLookup]_vars

\* -------------------------------------------------------------------- claims

\* C1: signalling shutdown is idempotent.  Whoever calls openPoison or
\* ExitLoop, also on a channel already closed and also two callers at once:
\* no panic leaves openPoison, the call can always complete (nobody blocks in
\* it), after it the signal is "signaled", and the pump ends once (every loop
\* does its wg.Done() once, Loop returns nil with the three loops done).
C1_SignalIdempotent ==
    /\ \A p \in Procs : pc[p] # "crashed"
    /\ \A x \in ExitCallers : pc[x] = "idle" => ENABLED ExitLoop(x)
    /\ \A p \in {"wl", "rl"} : pc[p] = "op_close" => ENABLED openPoison(p)
    /\ \A x \in ExitCallers : pc[x] = "returned" => poison = "closed"
    /\ wg \in 0..3
    /\ (pc["main"] = "idle" /\ ret = "nil") =>
          /\ poison = "closed"
          /\ \A p \in PumpLoops : pc[p] = "done"

\* C1 witness: both ExitLoop calls have returned (one of them found the
\* channel closed) and a pump that ran has ended with Loop returning nil.
C1_Witness ==
    /\ pc["x1"] = "returned"
    /\ pc["x2"] = "returned"
    /\ pc["main"] = "idle"
    /\ ret = "nil"

\* C2: after the shutdown signal is triggered while the pump runs, each of
\* the four loops (Input, Output, Resize, Ping) eventually exits and Loop
\* returns.
C2_AllFourLoopsExit ==
    (poison = "closed" /\ pc["main"] = "wait")
        ~> (/\ pc["main"] = "idle"
            /\ \A p \in PumpLoops \cup {"ping"} : pc[p] = "done")

\* C3: whenever Loop has returned from a pump run, none of the four loops is
\* still running and none can still write to the socket.
C3_LoopReturnsAfterAllFour ==
    (pc["main"] = "idle" /\ ret = "nil") =>
        /\ \A p \in PumpLoops \cup {"ping"} : pc[p] \in {"none", "done"}
        /\ InWrite = {}

\* C4: every frame is written under the write guard, taken and released per
\* message: at most one goroutine is inside a socket write, the one inside
\* holds the guard, and the guard is held only by a goroutine inside a write.
C4_WriteGuard ==
    /\ Cardinality(InWrite) <= 1
    /\ \A p \in InWrite : WriteMutex = p
    /\ WriteMutex # "free" => WriteMutex \in InWrite

\* C4 witness: the input loop is inside a socket write while the resize loop
\* and the ping loop wait for the guard.
C4_Witness ==
    /\ pc["wl"] = "w_io"
    /\ pc["tsz"] = "w_lock"
    /\ pc["ping"] = "w_lock"

\* C5: the untagged negotiation message is the first frame written on the
\* socket: no Ping, Input or ResizeTerminal frame is written before the
\* negotiation write has completed successfully.
C5_NegotiationFirst == first \in {"none", "neg"}

\* C6: when a handshake step of a Loop invocation fails (token fetch, dial,
\* negotiation send), Loop has returned that error and that invocation has
\* started no loop: no pump loop, no ping loop and no reader run, nobody
\* writes or waits to write, and no frame has been written on the socket
\* (which was opened only when the negotiation send was the step that failed).
C6_HandshakeFailureStartsNothing ==
    ret \in HandshakeErrors =>
        /\ pc["main"] = "idle"
        /\ \A p \in PumpLoops \cup {"ping"} : pc[p] = "none"
        /\ helper = "none" /\ oldReading = 0 /\ oldSending = 0
        /\ WriteMutex = "free"
        /\ first = "none"
        /\ (Conn # "nil") = (ret = "err_write")

\* C6 witness: the socket was opened, the negotiation send failed and Loop
\* has returned the error.
C6_Witness == ret = "err_write" /\ Conn = "open" /\ pc["main"] = "idle"

\* C7: when the auth-token response has a non-success status, or a body
\* without the pattern var gotty_auth_token = '<token>', the handshake fails
\* with the token error and no websocket is dialed: Conn stays unset and
\* Connected stays false.
NonSuccess(status) == status \notin 200..299

C7_BadResponse ==
    /\ resp.fault = "none"
    /\ NonSuccess(resp.status) \/ FindStringSubmatch(resp.body) = <<>>

C7_TokenFailureOpensNoSocket ==
    /\ [][(pc["main"] = "token" /\ C7_BadResponse /\ pc'["main"] # "token")
              => (ret' = "err_token" /\ pc'["main"] = "idle"
                    /\ Conn' = "nil" /\ ~Connected')]_vars
    /\ [](ret = "err_token" => (Conn = "nil" /\ ~Connected /\ pc["ping"] = "none"))

\* C7 witness: the token request was answered 404 (with a body that does hold
\* the pattern) and Loop has returned the token error.
C7_Witness ==
    /\ ret = "err_token"
    /\ resp.status = 404
    /\ FindStringSubmatch(resp.body) # <<>>

\* C8: on end-of-input the input loop writes exactly one end-of-transmission
\* frame (Input tag, payload byte 4) and exits; it never writes a second one
\* (stated for a connection whose negotiation message went out first).
C8_OneEotFrame == first = "neg" => eot <= 1

\* C9: the shutdown signal only moves from "not yet signaled" to "signaled":
\* once the channel is closed it stays closed, and every later check by a
\* loop, also a loop of a later Loop call, finds it closed: the input loop
\* cannot go on to another read, and each loop at its check can leave.
C9_Observed ==
    poison = "closed" =>
        /\ ~ENABLED writeLoopRead
        /\ pc["wl"] = "loop" => ENABLED die("wl")
        /\ pc["tsz"] = "select" => ENABLED die("tsz")
        /\ pc["rl"] = "select" => ENABLED die("rl")

C9_SignalMonotonic ==
    /\ [][poison = "closed" => poison' = "closed"]_vars
    /\ []C9_Observed

\* C9 witness: in the second Loop call the output loop is still at its
\* select, so the reader helper left behind is that of an earlier pump, which
\* has ended: the signal was given before this call.  The input loop this
\* call started has found the signal and is done while Loop still waits.
C9_Witness ==
    /\ loopCalls = 2
    /\ oldReading + oldSending >= 1
    /\ pc["main"] = "wait"
    /\ pc["rl"] = "select"
    /\ pc["wl"] = "done"
    /\ poison = "closed"

\* C10: for a non-empty detach sequence and an input stream that contains it
\* as a contiguous subsequence, the detector signals detach exactly once,
\* forwards no byte of the matched sequence and forwards the bytes before it
\* unchanged and in order.
C10_DetachOnSequence ==
    (EscFinished /\ Occurrences(esc.input, esc.keys) # {}) =>
        /\ esc.detached = 1
        /\ esc.out = SubSeq(esc.input, 1, Least(Occurrences(esc.input, esc.keys)) - 1)

\* C11: for an input stream that is a proper, non-empty prefix of the detach
\* sequence followed by one byte that does not extend the match, the detector
\* forwards the prefix bytes and then that byte, all of them and in order,
\* and signals no detach.
C11_PrefixThenOther ==
    (/\ EscFinished
     /\ Len(esc.input) \in 2..Len(esc.keys)
     /\ SubSeq(esc.input, 1, Len(esc.input) - 1) = SubSeq(esc.keys, 1, Len(esc.input) - 1)
     /\ esc.input[Len(esc.input)] # esc.keys[Len(esc.input)])
        => (esc.out = esc.input /\ esc.detached = 0)

\* C11 witness: the sequence is ctrl-p, ctrl-q, ctrl-q; ctrl-p, ctrl-q and
\* then ctrl-p (which does not extend the match, and restarts one) went
\* through and all three came out.
C11_Witness ==
    /\ esc.keys = <<CtrlP, CtrlQ, CtrlQ>>
    /\ esc.input = <<CtrlP, CtrlQ, CtrlP>>
    /\ esc.rest = <<>>
    /\ esc.out = <<CtrlP, CtrlQ, CtrlP>>

ServerKinds == {"output", "pong", "setWindowTitle", "setPreferences", "setReconnect"}
ClientKinds == {"input", "ping", "resizeTerminal"}

\* A tag table in which the tags of each direction are pairwise different and
\* the switch on a kind's tag comes to that kind's case.
RoundTrips(m) ==
    /\ \A j, k \in ServerKinds : m[j] = m[k] => j = k
    /\ \A j, k \in ClientKinds : m[j] = m[k] => j = k
    /\ \A k \in ServerKinds : readLoopSwitch(m, <<m[k]>>) = k

\* C12: in each protocol revision and each direction the mapping from message
\* kind to tag is injective, and dispatching on a kind's tag under the same
\* revision gives the same kind; the table in force is that of the client's
\* revision.
C12_TagRoundTrip ==
    /\ \A v2 \in BOOLEAN : RoundTrips(initMessageType(v2))
    /\ message # NilMessage => (message = initMessageType(V2) /\ RoundTrips(message))

\* C12 witness: under the legacy revision readLoop has received the frame
\* with the legacy setReconnect tag and its switch took the setReconnect case.
C12_Witness ==
    /\ ~V2
    /\ pc["rl"] = "spawn"
    /\ msg.Err = "nil"
    /\ msg.Data = <<SetReconnectV1>> \o B64One
    /\ readLoopSwitch(message, msg.Data) = "setReconnect"

\* C13: the tag tables of the two revisions are disjoint: in each direction
\* no tag of the table in force is a tag of the other revision's table.
C13_DisjointTables ==
    message # NilMessage =>
        /\ \A j, k \in ServerKinds : message[j] # initMessageType(~V2)[k]
        /\ \A j, k \in ClientKinds : message[j] # initMessageType(~V2)[k]

\* What C14 has a frame write under revision v2, from the tag constants:
\* the decoded payload of an Output frame with valid base64 ("MQ==" is "1",
\* "aGVsbG8=" is "hello", "1" is not base64), the title sequence around the
\* payload of a SetWindowTitle frame, nothing for any other frame.
C14_Expected(v2, d) ==
    IF d[1] = (IF v2 THEN Output ELSE OutputV1)
    THEN (IF Tail(d) = Hello THEN <<104, 101, 108, 108, 111>>
          ELSE IF Tail(d) = B64One THEN <<49>>
          ELSE <<>>)
    ELSE IF d[1] = (IF v2 THEN SetWindowTitle ELSE SetWindowTitleV1)
    THEN <<27, 93, 48, 59>> \o Tail(d) \o <<7>>
    ELSE <<>>

\* C14: the output stream holds, for the frames received so far and in their
\* order of arrival, exactly what each frame is to write, and nothing else.
C14_OutputWrites ==
    Flatten(OutputStream) =
        Flatten([i \in 1..Len(Arrived) |-> C14_Expected(V2, Arrived[i])])

\* C14 witness: under the current revision an Output frame with payload
\* "aGVsbG8=" and then a SetWindowTitle frame have been received; the stream
\* holds "hello" and then the title sequence.
C14_Witness ==
    /\ V2
    /\ arrivals.rest = <<>>
    /\ arrivals.all = <<(<<Output>> \o Hello), (<<SetWindowTitle>> \o JSONOne)>>
    /\ OutputStream = <<(<<104, 101, 108, 108, 111>>), (<<27, 93, 48, 59, 49, 7>>)>>

\* What C15 has one token of the option contribute: a recognized ctrl-name
\* (however it is cased or spaced) its control code, a single printable
\* character that same byte, anything else nothing.
C15_Claimed(token) ==
    LET name == TrimSpace(ToLower(token))
    IN  IF Len(name) = 6 /\ SubSeq(name, 1, 5) = CtrlPrefix /\ name[6] \in DOMAIN CtrlNames
        THEN <<name[6] - 96>>
        ELSE IF Len(token) = 1 /\ token[1] \in 33..126 THEN token
        ELSE <<>>

RECURSIVE C15_ClaimedAll(_)
C15_ClaimedAll(tokens) ==
    IF tokens = <<>> THEN <<>>
    ELSE C15_Claimed(Head(tokens)) \o C15_ClaimedAll(Tail(tokens))

\* C15: parseDetachKeys gives, token by token and in order, the control code
\* of each recognized ctrl-name, the byte of each single printable character
\* unchanged, and nothing for any other token.
C15_ParseDetachKeys ==
    flag.parsed => flag.result = C15_ClaimedAll(Split(flag.keys))

\* The priority of a Host block for an alias: the exact match above a
\* wildcard match above "Host *".
C16_Priority(name, hostAlias) ==
    IF name = hostAlias THEN 3 ELSE IF name = Star THEN 1 ELSE 2

\* The matching blocks that set User, and those of them of highest priority.
C16_Setting(Hosts, hostAlias) ==
    {name \in DOMAIN Hosts : matchPattern(name, hostAlias) /\ Hosts[name].User # <<>>}

C16_Highest(Hosts, hostAlias) ==
    {name \in C16_Setting(Hosts, hostAlias) :
        \A other \in C16_Setting(Hosts, hostAlias) :
            C16_Priority(other, hostAlias) <= C16_Priority(name, hostAlias)}

\* C16: the effective value of an option (User) for an alias is the one of
\* the highest-priority matching Host block that sets it, "Host *" lowest,
\* then wildcard matches, then the exact match, whatever order the host map
\* is gone through in; no value when no matching block sets it.
C16_HostPriority ==
    hostcfg.looked =>
        IF C16_Setting(hostcfg.Hosts, hostcfg.hostAlias) = {}
        THEN hostcfg.result.User = <<>>
        ELSE \E name \in C16_Highest(hostcfg.Hosts, hostcfg.hostAlias) :
                hostcfg.result.User = hostcfg.Hosts[name].User

\* C17: when the escape detector reports a detach, the input loop writes no
\* frame for it (the step that finds the detach leaves the socket and the
\* write guard alone and takes up no payload) and goes to openPoison; when
\* an Input frame write fails it goes to openPoison too; from there it can
\* only close the poison channel and exit, never write.
C17_DetachOrWriteFailure ==
    /\ [][(err' = "escape" /\ err # "escape")
            => (/\ pc["wl"] = "loop" /\ pc'["wl"] = "op_close"
                /\ UNCHANGED <<WriteMutex, first, eot, data>>)]_vars
    /\ [][(err' = "write" /\ err # "write")
            => (pc["wl"] = "w_io" /\ pc'["wl"] = "op_close")]_vars
    /\ [][(pc["wl"] = "op_close" /\ pc'["wl"] # "op_close")
            => (/\ poison' = "closed" /\ pc'["wl"] = "done"
                /\ UNCHANGED <<WriteMutex, first, eot>>)]_vars
    /\ [](pc["wl"] = "op_close" => (WriteMutex # "wl" /\ ENABLED openPoison("wl")))

\* C17 witness: on a negotiated connection the detector has reported the
\* detach (ctrl-p, ctrl-q) and the input loop is on its way out; the poison
\* channel is still open and no end-of-transmission frame was written.
C17_Witness ==
    /\ pc["wl"] = "op_close"
    /\ err = "escape"
    /\ poison = "open"
    /\ first = "neg"
    /\ eot = 0

\* C18: during the pump a failed frame write of the resize loop or of the
\* input loop escalates the shutdown signal and makes the loop exit: the
\* loop holding the error of a failed write goes nowhere but to openPoison,
\* and with that out of its loop.
C18_WriteFailureEscalates ==
    [][/\ (pc["tsz"] = "w_err" /\ pc'["tsz"] # "w_err")
            => (poison' = "closed" /\ pc'["tsz"] = "done")
       /\ (err' = "write" /\ err # "write")
            => pc'["wl"] = "op_close"]_vars

\* C19: when the output loop receives a read error or an empty frame it
\* dispatches nothing (the output stream stays as it is), starts no further
\* socket read (no new helper) and goes to openPoison, from where it can only
\* close the poison channel and exit.
C19_ReadFailure(m) ==
    m.Err # "nil" \/ Len(m.Data) = 0

C19_ReadFailureEscalates ==
    /\ [][(pc["rl"] = "select" /\ msg' # msg /\ C19_ReadFailure(msg'))
            => (/\ pc'["rl"] = "op_close"
                /\ OutputStream' = OutputStream
                /\ helper' = "none")]_vars
    /\ [][(pc["rl"] = "op_close" /\ pc'["rl"] # "op_close")
            => (/\ poison' = "closed" /\ pc'["rl"] = "done"
                /\ helper' = "none"
                /\ OutputStream' = OutputStream)]_vars
    /\ [](pc["rl"] = "op_close"
            => (C19_ReadFailure(msg) /\ helper = "none" /\ ENABLED openPoison("rl")))

\* C19 witness: the output loop has left after a read error or an empty
\* frame: it is done, the poison channel is closed, and nobody else closed it
\* (no ExitLoop call was made, the input loop is still in its loop); no
\* helper is reading and none is left behind.
C19_Witness ==
    /\ pc["rl"] = "done"
    /\ poison = "closed"
    /\ pc["x1"] = "idle" /\ pc["x2"] = "idle"
    /\ pc["wl"] = "loop"
    /\ helper = "none" /\ oldReading = 0 /\ oldSending = 0

\* C20: a frame with an unrecognized tag, an Output frame with malformed
\* base64 and a SetReconnect frame with malformed JSON are dropped: receiving
\* one leaves the poison channel and the output stream as they are, and the
\* output loop goes round to read the next frame.
C20_Malformed(m) ==
    /\ m.Err = "nil"
    /\ Len(m.Data) > 0
    /\ \/ m.Data[1] \notin {message[k] : k \in ServerKinds}
       \/ m.Data[1] = message.output /\ Tail(m.Data) = JSONOne
       \/ m.Data[1] = message.setReconnect /\ Tail(m.Data) = B64One

C20_DecodeErrorsDropped ==
    /\ [][(pc["rl"] = "select" /\ msg' # msg /\ C20_Malformed(msg'))
            => (/\ poison' = poison
                /\ OutputStream' = OutputStream
                /\ pc'["rl"] = "spawn")]_vars
    /\ [][(pc["rl"] = "spawn" /\ pc'["rl"] # "spawn" /\ C20_Malformed(msg))
            => (pc'["rl"] = "select" /\ helper' = "reading" /\ poison' = poison)]_vars

\* C20 witness: the output loop has been through an Output frame whose
\* payload "1" is not base64: the poison channel is open, nothing was
\* written, and the loop is about to start the next read.
C20_Witness ==
    /\ pc["rl"] = "spawn"
    /\ msg.Err = "nil"
    /\ msg.Data = <<message.output>> \o JSONOne
    /\ poison = "open"
    /\ OutputStream = <<>>

\* C21: a Ping write that fails leaves the shutdown signal as it was and the
\* ping loop goes on to its next write; whatever has happened (the pump over,
\* the socket closed), a started ping loop is writing, waiting to write or
\* logging a failed write, and its frame is the Ping tag with no payload.
C21_PingFailureGoesOn ==
    /\ [][(pc'["ping"] = "w_err" /\ pc["ping"] # "w_err")
              => (pc["ping"] = "w_io" /\ poison' = poison)]_vars
    /\ [][(pc["ping"] = "w_err" /\ pc'["ping"] # "w_err")
              => (pc'["ping"] = "w_lock" /\ poison' = poison)]_vars
    /\ [](pc["ping"] # "none" =>
            /\ pc["ping"] \in {"w_lock", "w_io", "w_err"}
            /\ frameOf("ping").tagged
            /\ frameOf("ping").tag = (IF V2 THEN Ping ELSE PingV1)
            /\ frameOf("ping").payload = <<>>)

\* C21 witness: after the socket was closed a Ping write has failed, and the
\* shutdown signal is untriggered.
C21_Witness == pc["ping"] = "w_err" /\ Conn = "closed" /\ poison = "open"

\* C22: when the terminal-size query fails, at the initial resize or after a
\* window-size notification, the resize loop writes no frame and does not
\* trigger the shutdown signal: it takes no write guard and goes to its
\* select, where it waits for the next notification or for the signal.
C22_QueryFailureGoesOn ==
    /\ [][(pc'["tsz"] = "q_err" /\ pc["tsz"] # "q_err")
              => (pc["tsz"] \in {"init", "select"} /\ UNCHANGED <<poison, wireVars>>)]_vars
    /\ [][(pc["tsz"] = "q_err" /\ pc'["tsz"] # "q_err")
              => (pc'["tsz"] = "select" /\ UNCHANGED <<poison, wireVars, wg>>)]_vars
    /\ [](pc["tsz"] = "q_err" => WriteMutex # "tsz")

\* C22 witness: the pump runs, the terminal-size query has just failed and
\* the shutdown signal is untriggered.
C22_Witness == pc["tsz"] = "q_err" /\ poison = "open" /\ pc["main"] = "wait"

\* C23: when the detector holds a partial match of k >= 1 bytes and the next
\* byte does not extend it, it forwards the k held bytes and then that byte,
\* and its counter becomes 1 when the byte is the first byte of the sequence
\* and 0 otherwise; between input bytes the counter is at least 0 and less
\* than the length of the sequence.
C23_BrokenMatch ==
    /\ [][(/\ esc.rest # <<>>
           /\ esc.detached = 0
           /\ esc.pos >= 1
           /\ Head(esc.rest) # esc.keys[esc.pos + 1])
              => (/\ esc'.out = esc.out \o SubSeq(esc.input, Len(esc.input) - Len(esc.rest) - esc.pos + 1,
                                                    Len(esc.input) - Len(esc.rest) + 1)
                  /\ esc'.pos = (IF Head(esc.rest) = esc.keys[1] THEN 1 ELSE 0)
                  /\ esc'.detached = 0)]_vars
    /\ [](esc.keys # <<>> => esc.pos \in 0..(Len(esc.keys) - 1))

\* C23 witness: the sequence is ctrl-p, ctrl-q; ctrl-p was held, a second
\* ctrl-p broke the match: both came out and the counter is 1.
C23_Witness ==
    /\ esc.keys = <<CtrlP, CtrlQ>>
    /\ esc.input = <<CtrlP, CtrlP>>
    /\ esc.rest = <<>>
    /\ esc.out = <<CtrlP, CtrlP>>
    /\ esc.pos = 1

\* Where Loop is from its terminal setup to wg.Wait().
C24_PumpPhase == {"term", "go_termsize", "go_read", "go_write", "wait"}

\* C24: Loop makes the handshake only when the client is not connected, and
\* only as the first thing of an invocation: the token request starts at
\* Loop's entry, the dial follows a token, a socket is opened by the dial
\* alone.  From its terminal setup on (so also when the pump is over) Loop
\* requests no token and dials no socket until it has returned.
C24_OneHandshake ==
    /\ [][(pc["main"] = "idle" /\ pc'["main"] # "idle")
              => (pc'["main"] = IF Connected THEN "term" ELSE "GetAuthToken")]_vars
    /\ [][(pc'["main"] = "GetAuthToken" /\ pc["main"] # "GetAuthToken")
              => (pc["main"] = "idle" /\ ~Connected)]_vars
    /\ [][(pc'["main"] = "token" /\ pc["main"] # "token")
              => pc["main"] = "GetAuthToken"]_vars
    /\ [][(pc'["main"] = "Dial" /\ pc["main"] # "Dial")
              => pc["main"] = "token"]_vars
    /\ [][(Conn' = "open" /\ Conn # "open") => pc["main"] = "Dial"]_vars
    /\ [][pc["main"] \in C24_PumpPhase
              => (/\ pc'["main"] \in C24_PumpPhase \cup {"idle"}
                  /\ UNCHANGED <<Conn, authToken, resp>>)]_vars

\* C24 witness: in its first invocation Loop made the handshake, ran the pump
\* (which a loop ended, not ExitLoop) and has returned with the socket it
\* dialed.
C24_Witness ==
    /\ loopCalls = 1
    /\ pc["main"] = "idle"
    /\ ret = "nil"
    /\ first = "neg"
    /\ Conn = "open"
    /\ \A x \in ExitCallers : pc[x] = "idle"

\* C25: outside Connect's own steps from the negotiation write to the start
\* of the ping loop, the Connected flag is true only when the negotiation
\* message was written on the socket (it is the first frame the socket took)
\* and the ping loop has been started; so a Loop call that finds Connected
\* true runs its pump on a negotiated connection.
C25_ConnectedMeansNegotiated ==
    (Connected /\ pc["main"] \notin {"w_lock", "w_io", "sleep"})
        => (first = "neg" /\ pc["ping"] # "none")

\* C27: once Loop has started its pump loops it returns nil, whichever loop
\* or caller triggered the shutdown; an error is returned only from the
\* handshake (a handshake error) or from the terminal setup (a terminal
\* error), before any pump loop of the invocation is started.
C27_NilAfterPump ==
    /\ [][(pc["main"] \in {"go_termsize", "go_read", "go_write", "wait"}
                /\ pc'["main"] = "idle")
              => (ret' = "nil" /\ pc["main"] = "wait")]_vars
    /\ [][(ret' # ret /\ ret' \notin {"none", "nil"})
              => (/\ pc'["main"] = "idle"
                  /\ \/ ret' \in HandshakeErrors /\ pc["main"] \in {"token", "Dial", "w_io"}
                     \/ ret' \in TerminalErrors /\ pc["main"] = "term"
                  /\ wg = 0
                  /\ \A p \in PumpLoops : pc[p] \in {"none", "done"})]_vars

\* C27 witness: the pump ran, stdin came to its end (the end-of-transmission
\* frame was written), ExitLoop triggered the shutdown and Loop has returned
\* nil.
C27_Witness ==
    /\ pc["main"] = "idle"
    /\ ret = "nil"
    /\ stdin = "eof"
    /\ eot >= 1
    /\ pc["x1"] = "returned"
    /\ pc["x2"] = "idle"

\* C28: when Loop has returned an error, no goroutine the client started is
\* running: no ping loop, no pump loop, no reader helper, and nobody is in
\* a write.
C28_ErrorLeavesNothingRunning ==
    (pc["main"] = "idle" /\ ret \in HandshakeErrors \cup TerminalErrors)
        => (/\ pc["ping"] = "none"
            /\ \A p \in PumpLoops : pc[p] \in {"none", "done"}
            /\ helper = "none" /\ oldReading = 0 /\ oldSending = 0
            /\ InWrite = {})

\* The helpers that are inside Conn.ReadMessage: the running output loop's
\* own, and those that finished output loops left behind.
C29_Reading == (IF helper = "reading" THEN 1 ELSE 0) + oldReading

\* C29: at most one ReadMessage is outstanding on the socket at any time,
\* and the output loop starts a helper only when it has none.
C29_OneReader ==
    /\ C29_Reading <= 1
    /\ pc["rl"] = "spawn" => helper = "none"

\* C30: no helper of an output loop that has returned is left blocked on
\* handing over its result once the caller has closed the connection.  (The
\* channel such a helper sends on was the returned loop's own: nobody
\* receives from it any more.)
C30_NoHelperLeftBlocked == Conn = "closed" => oldSending = 0

====
